---- MODULE Spec2Model ----
(***************************************************************************)
(* Model of custom_components/geosphere_wetterwarnung/coordinator.py:      *)
(* the warning-key deriver, the grace-period extender and the update       *)
(* cycle of geosphereCoordinator (resolve coordinates, fetch per           *)
(* coordinate, reconcile with the warning cache, fall back to the last     *)
(* successful result).                                                     *)
(***************************************************************************)
EXTENDS Integers, Sequences, FiniteSets, TLC

(***************************************************************************)
(* Python values found in a rawinfo block.  A value is a record            *)
(* [t, i, s]: t is the Python type ("absent" = the key is not in the       *)
(* dict), i the payload of an int, s the payload of a str.                 *)
(***************************************************************************)
Absent == [t |-> "absent", i |-> 0, s |-> ""]

PyNone == [t |-> "none", i |-> 0, s |-> ""]

PyInt(n) == [t |-> "int", i |-> n, s |-> ""]

PyStr(x) == [t |-> "str", i |-> 0, s |-> x]

\* Decimal literals int() is asked to parse in this model.
Literals == -1..12

\* bool(val) as used by `if val:`; dict.get gives None for an absent key.
Truthy(v) ==
    CASE v.t = "int" -> v.i # 0
      [] v.t = "str" -> v.s # ""
      [] OTHER -> FALSE

\* str(val)
PyStrOf(v) ==
    CASE v.t = "int" -> ToString(v.i)
      [] v.t = "str" -> v.s
      [] v.t = "none" -> "None"
      [] OTHER -> ""

\* str(raw.get(field, "")): an absent key renders as the empty string.
StrOrEmpty(v) == IF v.t = "absent" THEN "" ELSE PyStrOf(v)

\* int(x) for a str: the decimal literal it spells, or ValueError.
IsLiteral(x) == \E n \in Literals : ToString(n) = x

LiteralOf(x) == CHOOSE n \in Literals : ToString(n) = x

(***************************************************************************)
(* A warning is modelled by its properties.rawinfo block.                  *)
(***************************************************************************)
IdFields == <<"id", "awcode", "warnid", "wcode">>

IdPrefix(k) == IF k = 1 THEN "id:" ELSE IF k = 2 THEN "awcode:" ELSE IF k = 3 THEN "warnid:" ELSE "wcode:"

IdValue(w, k) == IF k = 1 THEN w.id ELSE IF k = 2 THEN w.awcode ELSE IF k = 3 THEN w.warnid ELSE w.wcode

FallbackKey(w) ==
    StrOrEmpty(w.wtype) \o "|" \o StrOrEmpty(w.wlevel) \o "|" \o StrOrEmpty(w.start) \o "|" \o StrOrEmpty(w.end)

\* _warning_key: the first of id, awcode, warnid, wcode that is truthy, else
\* the composite key.
LastTruthyId(w) == {k \in 1..Len(IdFields) : Truthy(IdValue(w, k)) /\ \A j \in (k + 1)..Len(IdFields) : ~Truthy(IdValue(w, j))}

FirstTruthyId(w) == {k \in 1..Len(IdFields) : Truthy(IdValue(w, k)) /\ \A j \in 1..(k - 1) : ~Truthy(IdValue(w, j))}

WarningKey(w) ==
    IF FirstTruthyId(w) = {} THEN FallbackKey(w)
    ELSE LET k == CHOOSE x \in FirstTruthyId(w) : TRUE
         IN  IdPrefix(k) \o PyStrOf(IdValue(w, k))

\* _get_end_ts: int(raw.get("end", 0)), 0 on TypeError / ValueError.
GetEndTs(w) ==
    CASE w.end.t = "int" -> w.end.i
      [] w.end.t = "str" -> IF IsLiteral(w.end.s) THEN LiteralOf(w.end.s) ELSE 0
      [] OTHER -> 0

\* _copy_with_end: a copy whose rawinfo.end is the int new_end.
CopyWithEndFreshRaw(w, new_end) ==
    [id |-> Absent, awcode |-> Absent, warnid |-> Absent, wcode |-> Absent,
     wtype |-> Absent, wlevel |-> Absent, start |-> Absent, end |-> PyInt(new_end)]

CopyWithEndKeepsEnd(w, new_end) == w

CopyWithEnd(w, new_end) == [w EXCEPT !.end = PyInt(new_end)]

\* _extend_if_grace_applies; the result is <<>> for None, <<record>> otherwise.
ExtendGraceFirst(w, now_ts, grace_seconds, allow_invalid_end) ==
    LET end_ts == GetEndTs(w)
    IN  IF end_ts <= 0 THEN (IF allow_invalid_end THEN <<w>> ELSE <<>>)
        ELSE IF now_ts > end_ts + grace_seconds THEN <<>>
        ELSE IF now_ts <= end_ts THEN <<w>>
        ELSE <<CopyWithEnd(w, end_ts + grace_seconds)>>

ExtendIfGraceApplies(w, now_ts, grace_seconds, allow_invalid_end) ==
    LET end_ts == GetEndTs(w)
    IN  IF end_ts <= 0 THEN (IF allow_invalid_end THEN <<w>> ELSE <<>>)
        ELSE IF now_ts <= end_ts THEN <<w>>
        ELSE IF now_ts <= end_ts + grace_seconds THEN <<CopyWithEnd(w, end_ts + grace_seconds)>>
        ELSE <<>>

(***************************************************************************)
(* _parse_extra_coords.  The text is modelled after its two splits: a      *)
(* sequence of ";"-segments, each the sequence of its stripped ","-pieces  *)
(* (a blank segment has no pieces); a piece is [num, v]: float() succeeds  *)
(* on it iff num.                                                          *)
(***************************************************************************)
Num(n) == [num |-> TRUE, v |-> n]

NotNum == [num |-> FALSE, v |-> 0]

RECURSIVE ParseExtraCoords(_)
ParseExtraCoords(text) ==
    IF text = <<>> THEN <<>>
    ELSE LET part == Head(text)
             rest == ParseExtraCoords(Tail(text))
         IN  IF part = <<>> THEN rest
             ELSE IF Len(part) # 2 THEN rest
             ELSE IF ~part[1].num \/ ~part[2].num THEN rest
             ELSE <<(<<part[1].v, part[2].v>>)>> \o rest

(***************************************************************************)
(* State.                                                                  *)
(***************************************************************************)
VARIABLES
    now,                  \* wall clock, epoch seconds
    grace,                \* CONF_GRACE_PERIOD as _get_entry_value returns it
    extra,                \* CONF_EXTRA_COORDS text
    outcomes,             \* what a request to the warning service can end in
    horizon,              \* the clock value after which no cycle starts
    last_http_status,     \* <<>> for None, else <<status>>
    last_http_response,   \* <<>> for None, else the joined messages
    had_partial_failure,
    last_successful_data, \* <<>> for None, else <<warnings of the result>>
    last_non_empty_data,
    last_non_empty_utc,
    warning_cache,        \* dict in insertion order: [key, warning, last_seen_ts]
    last_request_utc,
    pc,                   \* "idle", "fetch", "done", "cancelled"
    coords,               \* locals of _async_update_data
    idx,
    combined_warnings,
    any_success,
    max_http_status,
    error_messages,
    attempts,             \* the requests issued, in order: [coord, o]
    ret,                  \* what the last cycle returned or raised
    track,                \* per key: record last fetched, when, cycles since
    lastGood,             \* result of the latest cycle with a successful fetch
    pw, pnow, pgrace, pallow, pres, pkeys, ppc   \* the pure-function harness

cfgVars == <<grace, extra, outcomes, horizon>>

fieldVars == <<last_http_status, last_http_response, had_partial_failure, last_request_utc>>

storeVars == <<last_successful_data, last_non_empty_data, last_non_empty_utc, warning_cache>>

localVars == <<coords, idx, combined_warnings, any_success, max_http_status, error_messages, attempts>>

pureVars == <<pw, pnow, pgrace, pallow, pres, pkeys, ppc>>

ghostVars == <<track, lastGood>>

vars == <<now, cfgVars, fieldVars, storeVars, localVars, pc, ret, ghostVars, pureVars>>

(***************************************************************************)
(* The fetch of one coordinate (lines 164-194).  An outcome is what the    *)
(* request ends in:                                                        *)
(*   "transport"  session.get raises (network error, timeout): no status   *)
(*   "http"       a status other than 200; body tells if resp.text() works *)
(*   "json"       status 200, resp.json() raises                           *)
(*   "shape"      status 200, the body parses but is not the expected      *)
(*                document, so data.get / props.get / extend raises        *)
(*   "ok"         status 200 and a document whose warnings are ws          *)
(***************************************************************************)
HTTP_OK == 200

Outcome(kind, status, body, ws) == [kind |-> kind, status |-> status, body |-> body, ws |-> ws]

\* One diagnostic: the coordinate prefix and the rest of the text.
Message(coord, detail, status) == [coord |-> coord, detail |-> detail, status |-> status]

\* max_http_status after `status = resp.status` (lines 171-173).
MaxStatusLower(cur, status) ==
    IF cur = <<>> \/ status < cur[1] THEN <<status>> ELSE cur

MaxStatus(cur, status) ==
    IF cur = <<>> \/ status > cur[1] THEN <<status>> ELSE cur

\* The message a coordinate's attempt appends, <<>> if none.
OutcomeMessage(coord, o) ==
    CASE o.kind = "transport" -> <<Message(coord, "transport exception", 0)>>
      [] o.kind = "http" -> <<Message(coord, IF o.body THEN "HTTP body" ELSE "HTTP <no body>", o.status)>>
      [] o.kind = "json" -> <<Message(coord, "json exception", 0)>>
      [] o.kind = "shape" -> <<Message(coord, "shape exception", 0)>>
      [] OTHER -> <<>>

(***************************************************************************)
(* Reconciliation with the warning cache (lines 202-248).                  *)
(***************************************************************************)
Entry(key, w, ts) == [key |-> key, warning |-> w, last_seen_ts |-> ts]

CacheKeys(cache) == {cache[i].key : i \in 1..Len(cache)}

\* self._warning_cache[key] = {...}: an existing key keeps its position.
CachePut(cache, key, w, ts) ==
    IF key \in CacheKeys(cache)
    THEN [i \in 1..Len(cache) |-> IF cache[i].key = key THEN Entry(key, w, ts) ELSE cache[i]]
    ELSE Append(cache, Entry(key, w, ts))

\* As if the extender rewrote "end" in the dict it was given, which is the
\* dict the cache entry holds.
RECURSIVE CacheAfterFreshExtendsInPlace(_, _, _)
CacheAfterFreshExtendsInPlace(cache, ws, now_ts) ==
    IF ws = <<>> THEN cache
    ELSE LET ext == ExtendIfGraceApplies(Head(ws), now_ts, grace, TRUE)
             stored == IF ext = <<>> THEN Head(ws) ELSE ext[1]
         IN  CacheAfterFreshExtendsInPlace(CachePut(cache, WarningKey(Head(ws)), stored, now_ts), Tail(ws), now_ts)

\* The cache after the loop of lines 207-218.
RECURSIVE CacheAfterFresh(_, _, _)
CacheAfterFresh(cache, ws, now_ts) ==
    IF ws = <<>> THEN cache
    ELSE CacheAfterFresh(CachePut(cache, WarningKey(Head(ws)), Head(ws), now_ts), Tail(ws), now_ts)

CurrentKeys(ws) == {WarningKey(ws[i]) : i \in 1..Len(ws)}

\* warnings_with_grace after the loop of lines 207-218.
RECURSIVE FreshOutput(_, _, _)
FreshOutput(ws, now_ts, grace_seconds) ==
    IF ws = <<>> THEN <<>>
    ELSE ExtendIfGraceApplies(Head(ws), now_ts, grace_seconds, TRUE)
         \o FreshOutput(Tail(ws), now_ts, grace_seconds)

\* Lines 224-238 for one entry whose key was not seen: what it adds to the
\* output; <<>> means the key goes to expired_keys.
CachedKeepNoAgeCheck(entry, now_ts, grace_seconds) ==
    IF grace_seconds <= 0 \/ entry.last_seen_ts = 0 THEN <<>>
    ELSE ExtendIfGraceApplies(entry.warning, now_ts, grace_seconds, FALSE)

CachedKeepAllowInvalid(entry, now_ts, grace_seconds) ==
    IF grace_seconds <= 0 \/ entry.last_seen_ts = 0 THEN <<>>
    ELSE IF now_ts - entry.last_seen_ts > grace_seconds THEN <<>>
    ELSE ExtendIfGraceApplies(entry.warning, now_ts, grace_seconds, TRUE)

CachedKeep(entry, now_ts, grace_seconds) ==
    IF grace_seconds <= 0 \/ entry.last_seen_ts = 0 THEN <<>>
    ELSE IF now_ts - entry.last_seen_ts > grace_seconds THEN <<>>
    ELSE ExtendIfGraceApplies(entry.warning, now_ts, grace_seconds, FALSE)

\* What the loop of lines 221-238 appends to warnings_with_grace.
RECURSIVE CachedOutput(_, _, _, _)
CachedOutput(cache, seen, now_ts, grace_seconds) ==
    IF cache = <<>> THEN <<>>
    ELSE (IF Head(cache).key \in seen THEN <<>> ELSE CachedKeep(Head(cache), now_ts, grace_seconds))
         \o CachedOutput(Tail(cache), seen, now_ts, grace_seconds)

\* The cache after lines 240-241.
IsKept(entry, seen, now_ts, grace_seconds) ==
    entry.key \in seen \/ CachedKeep(entry, now_ts, grace_seconds) # <<>>

PruneNothing(cache, seen, now_ts, grace_seconds) == cache

Prune(cache, seen, now_ts, grace_seconds) ==
    SelectSeq(cache, LAMBDA e : IsKept(e, seen, now_ts, grace_seconds))

\* warnings_with_grace at line 243.
ReconcileOutput(cache, ws, now_ts, grace_seconds) ==
    FreshOutput(ws, now_ts, grace_seconds)
    \o CachedOutput(CacheAfterFresh(cache, ws, now_ts), CurrentKeys(ws), now_ts, grace_seconds)

\* self._warning_cache at line 243.
ReconcileCache(cache, ws, now_ts, grace_seconds) ==
    Prune(CacheAfterFresh(cache, ws, now_ts), CurrentKeys(ws), now_ts, grace_seconds)

\* What _async_update_data returns or raises.
NoReturn == [kind |-> "none", warnings |-> <<>>, reason |-> ""]

Data(ws) == [kind |-> "data", warnings |-> ws, reason |-> ""]

UpdateFailed(reason) == [kind |-> "failed", warnings |-> <<>>, reason |-> reason]

\* asyncio.CancelledError leaving the coroutine.
Cancelled == [kind |-> "cancelled", warnings |-> <<>>, reason |-> ""]

(***************************************************************************)
(* Bookkeeping about the cycles, not part of the program: for each key,    *)
(* the record last fetched under it, the time of that cycle, and how many  *)
(* cycles have ended since (kept for two cycles).                          *)
(***************************************************************************)
LastWithKey(ws, k) ==
    ws[CHOOSE i \in 1..Len(ws) : WarningKey(ws[i]) = k /\ \A j \in (i + 1)..Len(ws) : WarningKey(ws[j]) # k]

TrackAfter(tr, ws, now_ts) ==
    LET fetched == CurrentKeys(ws)
        aged == {k \in DOMAIN tr : k \notin fetched /\ tr[k].age < 2}
    IN  [k \in fetched \cup aged |->
            IF k \in fetched THEN [w |-> LastWithKey(ws, k), at |-> now_ts, age |-> 0]
            ELSE [tr[k] EXCEPT !.age = @ + 1]]

(***************************************************************************)
(* The update cycle, _async_update_data.                                   *)
(***************************************************************************)
MaxStep == 2

Anchor == <<48, 16>>

ZoneFailures == {"zone.home not found", "zone.home has no coordinates", "zone.home has invalid coordinates"}

\* A cycle starts when none is running (the host serialises them), at
\* least one second after the previous one started.
CanStart(dt) == pc \in {"idle", "done", "cancelled"} /\ dt \in 1..MaxStep /\ now + dt <= horizon

\* Lines 125-149 when zone.home is missing, has no latitude/longitude, or
\* float() fails on them: the cycle raises UpdateFailed.
StartCycleZoneFailFallback(dt, reason) ==
    /\ CanStart(dt)
    /\ now' = now + dt
    /\ last_request_utc' = <<now + dt>>
    /\ last_http_status' = <<>>
    /\ last_http_response' = <<Message(<<>>, reason, 0)>>
    /\ ret' = IF last_successful_data # <<>> THEN Data(last_successful_data[1]) ELSE UpdateFailed(reason)
    /\ pc' = "done"
    /\ coords' = <<>>
    /\ idx' = 1
    /\ combined_warnings' = <<>>
    /\ any_success' = FALSE
    /\ max_http_status' = <<>>
    /\ error_messages' = <<>>
    /\ attempts' = <<>>
    /\ track' = TrackAfter(track, <<>>, now + dt)
    /\ UNCHANGED <<cfgVars, had_partial_failure, storeVars, lastGood, pureVars>>

StartCycleZoneFail(dt, reason) ==
    /\ CanStart(dt)
    /\ now' = now + dt
    /\ last_request_utc' = <<now + dt>>
    /\ last_http_status' = <<>>
    /\ last_http_response' = <<Message(<<>>, reason, 0)>>
    /\ ret' = UpdateFailed(reason)
    /\ pc' = "done"
    /\ coords' = <<>>
    /\ idx' = 1
    /\ combined_warnings' = <<>>
    /\ any_success' = FALSE
    /\ max_http_status' = <<>>
    /\ error_messages' = <<>>
    /\ attempts' = <<>>
    /\ track' = TrackAfter(track, <<>>, now + dt)
    /\ UNCHANGED <<cfgVars, had_partial_failure, storeVars, lastGood, pureVars>>

\* Lines 125-162 when zone.home has coordinates.
StartCycle(dt) ==
    /\ CanStart(dt)
    /\ now' = now + dt
    /\ last_request_utc' = <<now + dt>>
    /\ LET cs == <<Anchor>> \o ParseExtraCoords(extra)
       IN  IF cs = <<>>
           THEN /\ last_http_status' = <<>>
                /\ last_http_response' = <<Message(<<>>, "no coordinates to query", 0)>>
                /\ ret' = UpdateFailed("no coordinates to query")
                /\ pc' = "done"
                /\ coords' = <<>>
                /\ track' = TrackAfter(track, <<>>, now + dt)
           ELSE /\ coords' = cs
                /\ pc' = "fetch"
                /\ ret' = NoReturn
                /\ UNCHANGED <<last_http_status, last_http_response, track>>
    /\ idx' = 1
    /\ combined_warnings' = <<>>
    /\ any_success' = FALSE
    /\ max_http_status' = <<>>
    /\ error_messages' = <<>>
    /\ attempts' = <<>>
    /\ UNCHANGED <<cfgVars, had_partial_failure, storeVars, lastGood, pureVars>>

\* One iteration of the loop of lines 164-194.
FetchCoordAbortOnError(o) ==
    /\ pc = "fetch" /\ idx <= Len(coords) /\ o \in outcomes
    /\ attempts' = Append(attempts, [coord |-> coords[idx], o |-> o])
    /\ max_http_status' = IF o.kind = "transport" THEN max_http_status ELSE MaxStatus(max_http_status, o.status)
    /\ any_success' = (any_success \/ o.kind \in {"shape", "ok"})
    /\ combined_warnings' = IF o.kind = "ok" THEN combined_warnings \o o.ws ELSE combined_warnings
    /\ error_messages' = error_messages \o OutcomeMessage(coords[idx], o)
    /\ idx' = IF o.kind = "ok" THEN idx + 1 ELSE Len(coords) + 1
    /\ UNCHANGED <<now, cfgVars, fieldVars, storeVars, coords, pc, ret, ghostVars, pureVars>>

FetchCoord(o) ==
    /\ pc = "fetch" /\ idx <= Len(coords) /\ o \in outcomes
    /\ attempts' = Append(attempts, [coord |-> coords[idx], o |-> o])
    /\ max_http_status' = IF o.kind = "transport" THEN max_http_status ELSE MaxStatus(max_http_status, o.status)
    /\ any_success' = (any_success \/ o.kind \in {"shape", "ok"})
    /\ combined_warnings' = IF o.kind = "ok" THEN combined_warnings \o o.ws ELSE combined_warnings
    /\ error_messages' = error_messages \o OutcomeMessage(coords[idx], o)
    /\ idx' = idx + 1
    /\ UNCHANGED <<now, cfgVars, fieldVars, storeVars, coords, pc, ret, ghostVars, pureVars>>

\* The task is cancelled while the request for coordinate idx awaits
\* (session.get, resp.text(), resp.json()): CancelledError is not an
\* Exception, so line 192 does not catch it and the coroutine ends there.
CancelFlushesFetched ==
    /\ pc = "fetch" /\ idx <= Len(coords)
    /\ pc' = "cancelled"
    /\ ret' = Cancelled
    /\ track' = TrackAfter(track, <<>>, last_request_utc[1])
    /\ warning_cache' = CacheAfterFresh(warning_cache, combined_warnings, last_request_utc[1])
    /\ UNCHANGED <<now, cfgVars, fieldVars, last_successful_data, last_non_empty_data,
                   last_non_empty_utc, localVars, lastGood, pureVars>>

Cancel ==
    /\ pc = "fetch" /\ idx <= Len(coords)
    /\ pc' = "cancelled"
    /\ ret' = Cancelled
    /\ track' = TrackAfter(track, <<>>, last_request_utc[1])
    /\ UNCHANGED <<now, cfgVars, fieldVars, storeVars, localVars, lastGood, pureVars>>

\* Lines 196-200.
PartialFailureFlagSomeSuccess(msgs, ok) == msgs # <<>> /\ ok

PartialFailureFlag(msgs, ok) == msgs # <<>>

FinalStatusDefaultsTo200(mhs, ok) == IF mhs = <<>> THEN <<HTTP_OK>> ELSE mhs

FinalStatus(mhs, ok) == IF mhs = <<>> THEN (IF ok THEN <<HTTP_OK>> ELSE <<>>) ELSE mhs

Publish ==
    /\ pc = "fetch" /\ idx > Len(coords)
    /\ had_partial_failure' = PartialFailureFlag(error_messages, any_success)
    /\ last_http_status' = FinalStatus(max_http_status, any_success)
    /\ last_http_response' = error_messages
    /\ pc' = "done"
    /\ track' = TrackAfter(track, combined_warnings, last_request_utc[1])
    /\ UNCHANGED <<now, cfgVars, last_request_utc, localVars, pureVars>>

\* As if lines 245-247 were not guarded by `if result:`.
FinishReconcileStoresEmpty ==
    /\ Publish
    /\ any_success
    /\ LET now_ts == last_request_utc[1]
           out == ReconcileOutput(warning_cache, combined_warnings, now_ts, grace)
       IN  /\ warning_cache' = ReconcileCache(warning_cache, combined_warnings, now_ts, grace)
           /\ last_successful_data' = <<out>>
           /\ last_non_empty_data' = <<out>> /\ last_non_empty_utc' = last_request_utc
           /\ ret' = Data(out)
           /\ lastGood' = <<out>>

\* Lines 202-248: the cycle had a successful fetch.
FinishReconcile ==
    /\ Publish
    /\ any_success
    /\ LET now_ts == last_request_utc[1]
           out == ReconcileOutput(warning_cache, combined_warnings, now_ts, grace)
       IN  /\ warning_cache' = ReconcileCache(warning_cache, combined_warnings, now_ts, grace)
           /\ last_successful_data' = <<out>>
           /\ IF out # <<>>
              THEN last_non_empty_data' = <<out>> /\ last_non_empty_utc' = last_request_utc
              ELSE UNCHANGED <<last_non_empty_data, last_non_empty_utc>>
           /\ ret' = Data(out)
           /\ lastGood' = <<out>>

\* Lines 250-253: no fetch succeeded.
FallbackAlwaysFail(snapshot) == UpdateFailed("Error fetching data: all requests failed")

FallbackEmptyWhenStale(snapshot) ==
    IF snapshot # <<>> THEN Data(<<>>)
    ELSE UpdateFailed("Error fetching data: all requests failed")

Fallback(snapshot) ==
    IF snapshot # <<>> THEN Data(snapshot[1])
    ELSE UpdateFailed("Error fetching data: all requests failed")

FinishNoSuccess ==
    /\ Publish
    /\ ~any_success
    /\ ret' = Fallback(last_successful_data)
    /\ UNCHANGED <<storeVars, lastGood>>

(***************************************************************************)
(* The pure functions applied to one warning: the extender, then the key   *)
(* deriver on its input and on its result.                                 *)
(***************************************************************************)
PureExtend ==
    /\ ppc = "input"
    /\ pres' = ExtendIfGraceApplies(pw, pnow, pgrace, pallow)
    /\ ppc' = "extended"
    /\ UNCHANGED <<now, cfgVars, fieldVars, storeVars, localVars, pc, ret, ghostVars, pw, pnow, pgrace, pallow, pkeys>>

PureKeys ==
    /\ ppc = "extended"
    /\ pkeys' = <<WarningKey(pw)>> \o (IF pres = <<>> THEN <<>> ELSE <<WarningKey(pres[1])>>)
    /\ ppc' = "keyed"
    /\ UNCHANGED <<now, cfgVars, fieldVars, storeVars, localVars, pc, ret, ghostVars, pw, pnow, pgrace, pallow, pres>>

(***************************************************************************)
(* Inputs.                                                                 *)
(***************************************************************************)
Warning(id, awcode, warnid, wcode, wtype, wlevel, start, end) ==
    [id |-> id, awcode |-> awcode, warnid |-> warnid, wcode |-> wcode,
     wtype |-> wtype, wlevel |-> wlevel, start |-> start, end |-> end]

\* The warnings the service reports in the cycle specifications.
WStorm2 == Warning(PyInt(7), Absent, Absent, Absent, PyInt(1), PyInt(2), PyInt(1), PyInt(2))

WStorm4 == Warning(PyInt(7), Absent, Absent, Absent, PyInt(1), PyInt(2), PyInt(1), PyInt(4))

WRain == Warning(Absent, Absent, Absent, Absent, PyInt(2), PyInt(1), PyInt(1), PyStr("3"))

WNoEnd == Warning(PyInt(0), PyStr("x"), Absent, Absent, PyInt(3), PyInt(1), PyInt(1), Absent)

WGale1 == Warning(Absent, Absent, PyStr("g"), Absent, PyInt(4), PyInt(3), PyInt(0), PyInt(1))

Pool == {WStorm2, WStorm4, WRain, WNoEnd}

\* Warnings whose end is missing, not a number, or not positive.
WBadEnd == Warning(Absent, Absent, Absent, PyInt(9), PyInt(1), PyInt(1), PyInt(1), PyStr("soon"))

WZeroEnd == Warning(Absent, Absent, Absent, Absent, PyInt(1), PyInt(1), PyInt(1), PyInt(0))

InvalidEndPool == {WNoEnd, WBadEnd, WZeroEnd}

\* The warnings the pure functions are applied to.
EndValues == {Absent, PyNone, PyInt(-1), PyInt(0), PyInt(3), PyInt(5), PyStr("4"), PyStr("soon")}

PureWarnings ==
    {Warning(id, awcode, warnid, wcode, PyInt(1), PyInt(2), start, end) :
        id \in {Absent, PyInt(0), PyInt(7)}, awcode \in {Absent, PyStr("x")},
        warnid \in {Absent, PyStr("")}, wcode \in {Absent, PyNone, PyInt(9)},
        start \in {Absent, PyInt(1)}, end \in EndValues}

MaxNow == 9

MaxGrace == 3

\* CONF_EXTRA_COORDS texts: "", "1,2;bad;3,4,5;," and " ;5,6;7,8".
TextEmpty == <<>>

TextMalformed == <<(<<Num(1), Num(2)>>), <<NotNum>>, <<Num(3), Num(4), Num(5)>>, <<NotNum, NotNum>>>>

TextTwo == <<(<<>>), <<Num(5), Num(6)>>, <<Num(7), Num(8)>>>>

\* Outcomes of one request.
Faults ==
    {Outcome("transport", 0, FALSE, <<>>), Outcome("json", HTTP_OK, FALSE, <<>>),
     Outcome("shape", HTTP_OK, FALSE, <<>>)}
    \cup {Outcome("http", 404, TRUE, <<>>), Outcome("http", 500, FALSE, <<>>)}

Replies(lists) == {Outcome("ok", HTTP_OK, FALSE, ws) : ws \in lists}

Singles(S) == {<<>>} \cup {<<w>> : w \in S}

CycleInit ==
    /\ now = 0
    /\ last_http_status = <<>>
    /\ last_http_response = <<>>
    /\ had_partial_failure = FALSE
    /\ last_successful_data = <<>>
    /\ last_non_empty_data = <<>>
    /\ last_non_empty_utc = <<>>
    /\ warning_cache = <<>>
    /\ last_request_utc = <<>>
    /\ pc = "idle"
    /\ coords = <<>>
    /\ idx = 1
    /\ combined_warnings = <<>>
    /\ any_success = FALSE
    /\ max_http_status = <<>>
    /\ error_messages = <<>>
    /\ attempts = <<>>
    /\ ret = NoReturn
    /\ track = <<>>
    /\ lastGood = <<>>

PureIdle ==
    /\ pw = WStorm2 /\ pnow = 0 /\ pgrace = 0 /\ pallow = FALSE
    /\ pres = <<>> /\ pkeys = <<>> /\ ppc = "off"

MaxTime == 5

\* Several cycles over a service that answers, fails or is unreachable.
Init ==
    /\ CycleInit /\ PureIdle
    /\ grace \in {-1, 0, 1, 2}
    /\ extra = TextEmpty
    /\ horizon = MaxTime
    /\ outcomes = Faults \cup Replies(Singles(Pool))

Next ==
    \/ \E dt \in 1..MaxStep, reason \in ZoneFailures : StartCycleZoneFail(dt, reason)
    \/ \E dt \in 1..MaxStep : StartCycle(dt)
    \/ \E o \in outcomes : FetchCoord(o)
    \/ Cancel
    \/ FinishReconcile
    \/ FinishNoSuccess

Spec == Init /\ [][Next]_vars

\* Few cycles: over one or two coordinates and every kind of fault, or over
\* three coordinates and three kinds of outcome.
FetchMaxTime == 2

InitFetch ==
    /\ CycleInit /\ PureIdle
    /\ grace \in {0, 1}
    /\ horizon = FetchMaxTime
    /\ \/ /\ extra \in {TextEmpty, TextMalformed}
          /\ outcomes = Faults \cup Replies(Singles({WGale1, WNoEnd}))
       \/ /\ extra = TextTwo
          /\ outcomes = {Outcome("transport", 0, FALSE, <<>>), Outcome("http", 500, TRUE, <<>>)}
                           \cup Replies({<<WGale1>>})

SpecFetch == InitFetch /\ [][Next]_vars

\* Several cycles over a service whose warnings have no valid end.
InitInvalidEnd ==
    /\ CycleInit /\ PureIdle
    /\ grace \in {-1, 0, 1, 2}
    /\ extra = TextEmpty
    /\ horizon = MaxTime
    /\ outcomes = {Outcome("transport", 0, FALSE, <<>>)} \cup Replies(Singles(InvalidEndPool))

SpecInvalidEnd == InitInvalidEnd /\ [][Next]_vars

\* The pure functions on every input.
InitPure ==
    /\ CycleInit
    /\ grace = 0 /\ extra = TextEmpty /\ horizon = 0 /\ outcomes = {}
    /\ pw \in PureWarnings
    /\ pnow \in 0..MaxNow
    /\ pgrace \in (-MaxGrace)..MaxGrace
    /\ pallow \in BOOLEAN
    /\ pres = <<>> /\ pkeys = <<>> /\ ppc = "input"

NextPure == PureExtend \/ PureKeys

SpecPure == InitPure /\ [][NextPure]_vars

(***************************************************************************)
(* Properties.                                                             *)
(***************************************************************************)
Range(q) == {q[i] : i \in 1..Len(q)}

Max0(n) == IF n > 0 THEN n ELSE 0

\* The end time of a warning when it is valid (an int, or a str spelling
\* one), else 0.
EndOf(w) == IF w.end.t = "int" THEN w.end.i ELSE IF w.end.t = "str" /\ IsLiteral(w.end.s) THEN LiteralOf(w.end.s) ELSE 0

PwEnd == EndOf(pw)

PwEndValid == PwEnd > 0

PureDone == ppc \in {"extended", "keyed"}

ResEnd == EndOf(pres[1])

\* C1 as stated: for a valid end, now <= end + grace gives a record with
\* end <= end' <= end + grace and now > end + grace gives none, for every
\* grace, negative ones included.
C1_AsStated ==
    (PureDone /\ PwEndValid) =>
        /\ pnow <= PwEnd + pgrace => (pres # <<>> /\ PwEnd <= ResEnd /\ ResEnd <= PwEnd + pgrace)
        /\ pnow > PwEnd + pgrace => pres = <<>>

\* C1 amended: the same with the grace window read as max(grace, 0): a
\* negative grace acts as no grace, so a warning that has not ended is
\* returned unchanged.
C1_Extender ==
    (PureDone /\ PwEndValid) =>
        /\ pnow <= PwEnd + Max0(pgrace) => (pres # <<>> /\ PwEnd <= ResEnd /\ ResEnd <= PwEnd + Max0(pgrace))
        /\ pnow > PwEnd + Max0(pgrace) => pres = <<>>

C1_Witness ==
    /\ PureDone /\ PwEndValid /\ pw.end.t = "str"
    /\ PwEnd < pnow /\ pnow <= PwEnd + pgrace
    /\ pres # <<>> /\ ResEnd = PwEnd + pgrace

\* The extender returned a copy with the end rewritten to end + grace.
PwExtended == PwEndValid /\ PwEnd < pnow /\ pnow <= PwEnd + pgrace

PwHasIdentity == Truthy(pw.id) \/ Truthy(pw.awcode) \/ Truthy(pw.warnid) \/ Truthy(pw.wcode)

\* C2 as stated: the key of the grace-extended copy equals the key of the
\* original, whichever identity fields are present.
C2_AsStated ==
    (ppc = "keyed" /\ PwExtended) => (Len(pkeys) = 2 /\ pkeys[2] = pkeys[1])

\* C2 amended: the keys are equal when one of id, awcode, warnid, wcode is
\* present and truthy.
C2_KeyOfExtended ==
    (ppc = "keyed" /\ PwExtended /\ PwHasIdentity) => (Len(pkeys) = 2 /\ pkeys[2] = pkeys[1])

C2_Witness ==
    /\ ppc = "keyed" /\ PwExtended /\ ~Truthy(pw.id) /\ Truthy(pw.wcode)
    /\ pres # <<>> /\ pres[1] # pw
    /\ Len(pkeys) = 2 /\ pkeys[2] = pkeys[1] /\ pkeys[1] = "wcode:9"

\* The cycle that just ended, its time, and whether it had a successful fetch.
NowTs == last_request_utc[1]

CycleDone == pc = "done"

ReachedFetch == pc = "done" /\ coords # <<>>

Reconciled == pc = "done" /\ any_success

Output == Range(ret.warnings)

\* The copy of w with its end rewritten to end + grace.
ExtCopy(w) == [w EXCEPT !.end = PyInt(EndOf(w) + grace)]

InOutput(w) == w \in Output \/ (EndOf(w) > 0 /\ ExtCopy(w) \in Output)

\* Keys fetched in the previous cycle (a = 1) or the one before (a = 2) and
\* in no cycle since.
AbsentFor(a) == {k \in DOMAIN track : track[k].age = a}

\* C3 as stated, for cycles N+1 and N+2 that have a successful fetch: with
\* grace > 0 a warning fetched in cycle N and absent in cycle N+1 is in the
\* output of N+1 with its end extended; still absent in N+2 with
\* now - last_seen_ts > grace, it is in neither the output nor the cache.
C3_AsStated ==
    (Reconciled /\ grace > 0) =>
        /\ \A k \in AbsentFor(1) : ExtCopy(track[k].w) \in Output
        /\ \A k \in AbsentFor(2) :
              NowTs - track[k].at > grace =>
                  (~InOutput(track[k].w) /\ k \notin CacheKeys(warning_cache))

\* C3 amended: in cycle N+1 the warning is in the output exactly when
\* now - last_seen_ts <= grace, its end is valid and now <= end + grace;
\* its end is rewritten to end + grace if end < now and left as it is
\* otherwise.  The statement about cycle N+2 stands.
C3_GraceRoundTrip ==
    (Reconciled /\ grace > 0) =>
        /\ \A k \in AbsentFor(1) :
              LET w == track[k].w
                  e == EndOf(w)
              IN  IF NowTs - track[k].at <= grace /\ e > 0 /\ NowTs <= e + grace
                  THEN IF e < NowTs THEN ExtCopy(w) \in Output /\ w \notin Output
                       ELSE w \in Output
                  ELSE ~InOutput(w)
        /\ \A k \in AbsentFor(2) :
              NowTs - track[k].at > grace =>
                  (~InOutput(track[k].w) /\ k \notin CacheKeys(warning_cache))

C3_Witness ==
    /\ Reconciled /\ grace > 0
    /\ \E k \in AbsentFor(1) :
          /\ EndOf(track[k].w) < NowTs
          /\ ExtCopy(track[k].w) \in Output
          /\ k \in CacheKeys(warning_cache)

\* The step that ends a cycle which reached the fetch phase.
FetchPhaseEnds == pc = "fetch" /\ pc' = "done"

StaleKeys == {warning_cache[i].key : i \in {j \in 1..Len(warning_cache) : NowTs - warning_cache[j].last_seen_ts > grace}}

\* C4 as stated: an entry whose last_seen_ts is more than grace seconds
\* back, and whose key this cycle does not fetch, is removed by this
\* cycle, whatever the outcome of the cycle's fetches.
C4_AsStated ==
    [][FetchPhaseEnds =>
          \A k \in StaleKeys \ CurrentKeys(combined_warnings) : k \notin CacheKeys(warning_cache')]_vars

\* C4 amended: it is removed by the next such cycle that has at least one
\* successful fetch.
C4_Expiry ==
    [][(FetchPhaseEnds /\ any_success) =>
          \A k \in StaleKeys \ CurrentKeys(combined_warnings) : k \notin CacheKeys(warning_cache')]_vars

C4_Witness ==
    /\ Reconciled /\ grace > 0
    /\ \E k \in AbsentFor(1) :
          /\ NowTs - track[k].at > grace
          /\ NowTs <= EndOf(track[k].w)
          /\ k \notin CacheKeys(warning_cache)

\* C5: a cycle that reached the fetch phase without a successful fetch
\* returns the result of the latest earlier cycle that had one, and raises
\* UpdateFailed exactly when there is none.
C5_StaleFallback ==
    (ReachedFetch /\ ~any_success) =>
        IF lastGood # <<>> THEN ret = Data(lastGood[1]) ELSE ret.kind = "failed"

C5_Witness ==
    /\ ReachedFetch /\ ~any_success
    /\ lastGood # <<>> /\ lastGood[1] # <<>>
    /\ ret = Data(lastGood[1])

\* C6 as stated: while a last-successful snapshot exists, a cycle returns
\* data and never raises UpdateFailed.
C6_AsStated == (CycleDone /\ last_successful_data # <<>>) => ret.kind = "data"

\* C6 amended: a cycle raises UpdateFailed when the anchor zone cannot be
\* resolved, snapshot or not, and otherwise only when no fetch succeeded
\* and no last-successful snapshot exists.
C6_FailureSignal ==
    CycleDone =>
        (ret.kind = "failed" <=> (coords = <<>> \/ (~any_success /\ last_successful_data = <<>>)))

C6_Witness ==
    /\ ReachedFetch /\ ~any_success /\ error_messages # <<>>
    /\ last_successful_data = <<(<<>>)>>
    /\ ret.kind = "data"

\* C7: when zone.home is missing or its coordinates are missing or not
\* floats, the cycle raises UpdateFailed with no request issued and no
\* fallback to the snapshot, and the cache and both snapshots keep their
\* values.
C7_AnchorFailure ==
    [][(pc \in {"idle", "done"} /\ pc' = "done") =>
          /\ ret'.kind = "failed" /\ ret'.reason \in ZoneFailures
          /\ attempts' = <<>>
          /\ storeVars' = storeVars]_vars

C7_Witness ==
    /\ CycleDone /\ coords = <<>> /\ ret.kind = "failed"
    /\ last_successful_data # <<>> /\ last_non_empty_data # <<>> /\ warning_cache # <<>>

\* What the cycle's requests ended in.
Failed(i) == attempts[i].o.kind # "ok"

RECURSIVE FailedCoords(_)
FailedCoords(as) ==
    IF as = <<>> THEN <<>>
    ELSE (IF Head(as).o.kind # "ok" THEN <<Head(as).coord>> ELSE <<>>) \o FailedCoords(Tail(as))

\* Two coordinates, one answering 200 with one warning, the other 500.
OneOkOne500(i) ==
    /\ ReachedFetch /\ Len(attempts) = 2
    /\ attempts[i].o.kind = "ok" /\ Len(attempts[i].o.ws) = 1
    /\ attempts[3 - i].o.kind = "http" /\ attempts[3 - i].o.status = 500

\* C8 as stated: such a cycle returns a result, had_partial_failure is
\* true, last_http_status is 500 and the returned list contains the
\* warning (as fetched, or with its end extended).
C8_AsStated ==
    \A i \in {1, 2} :
        OneOkOne500(i) =>
            /\ ret.kind = "data" /\ had_partial_failure /\ last_http_status = <<500>>
            /\ InOutput(attempts[i].o.ws[1])

\* C8 amended: the returned list contains the warning as fetched if its end
\* is invalid or now <= end, with its end rewritten to end + grace if
\* end < now <= end + grace, and not at all if now > end + grace.
C8_PartialFailure ==
    \A i \in {1, 2} :
        OneOkOne500(i) =>
            /\ ret.kind = "data" /\ had_partial_failure /\ last_http_status = <<500>>
            /\ LET w == attempts[i].o.ws[1]
                   e == EndOf(w)
               IN  IF e <= 0 \/ NowTs <= e THEN w \in Output
                   ELSE IF NowTs <= e + grace THEN ExtCopy(w) \in Output
                   ELSE ~InOutput(w)

C8_Witness ==
    /\ OneOkOne500(2)
    /\ EndOf(attempts[2].o.ws[1]) > 0 /\ EndOf(attempts[2].o.ws[1]) < NowTs
    /\ ExtCopy(attempts[2].o.ws[1]) \in Output
    /\ had_partial_failure /\ last_http_status = <<500>>

\* C9 as stated: had_partial_failure is true iff some coordinate failed
\* while there is at least one other coordinate.
C9_AsStated ==
    ReachedFetch =>
        (had_partial_failure <=>
            \E i \in 1..Len(attempts) : Failed(i) /\ \E j \in 1..Len(attempts) : j # i)

\* C9 amended: had_partial_failure is true iff some coordinate failed,
\* also when it is the only coordinate.
C9_PartialFlag ==
    ReachedFetch => (had_partial_failure <=> \E i \in 1..Len(attempts) : Failed(i))

C9_Witness ==
    /\ ReachedFetch /\ Len(coords) = 1 /\ Len(attempts) = 1
    /\ Failed(1) /\ ~any_success /\ had_partial_failure

\* C10: every coordinate is requested once, in order, whatever the other
\* requests end in; a failed request adds one message, prefixed with its
\* coordinate; and the cycle ends by returning data or by the UpdateFailed
\* of lines 250-253, never by an error of a request.
C10_FetchIsolation ==
    (pc \in {"fetch", "done"} /\ coords # <<>>) =>
        LET n == IF pc = "done" THEN Len(coords) ELSE idx - 1
        IN  /\ Len(attempts) = n
            /\ \A i \in 1..n : attempts[i].coord = coords[i]
            /\ [j \in 1..Len(error_messages) |-> error_messages[j].coord] = FailedCoords(attempts)
            /\ pc = "done" =>
                  (ret.kind = "data" \/ ret = UpdateFailed("Error fetching data: all requests failed"))

C10_Witness ==
    /\ ReachedFetch /\ Len(coords) = 3 /\ Len(attempts) = 3
    /\ attempts[1].o.kind = "transport" /\ attempts[2].o.kind = "http" /\ attempts[3].o.kind = "ok"
    /\ Len(error_messages) = 2 /\ error_messages[2].coord = coords[2]
    /\ ret.kind = "data"

\* The statuses the requests of the cycle produced: every request that got a
\* response has one, a request that raised before the response has none.
ObservedStatuses == {attempts[i].o.status : i \in {j \in 1..Len(attempts) : attempts[j].o.kind # "transport"}}

HighestOf(S) == CHOOSE m \in S : \A x \in S : x <= m

\* C11: after a cycle that reached the fetch phase, last_http_status is the
\* highest status any request produced; it is none exactly when no request
\* produced a status, and then the cycle had no successful fetch, so a
\* successful cycle never owes its status to the default of line 198.
C11_HighestStatus ==
    ReachedFetch =>
        /\ ObservedStatuses # {} => last_http_status = <<HighestOf(ObservedStatuses)>>
        /\ ObservedStatuses = {} => (last_http_status = <<>> /\ ~any_success)
        /\ any_success => HTTP_OK \in ObservedStatuses

C11_Witness ==
    /\ ReachedFetch /\ Len(attempts) = 3
    /\ attempts[1].o.kind = "http" /\ attempts[1].o.status = 500
    /\ attempts[2].o.kind = "ok" /\ attempts[3].o.kind = "transport"
    /\ any_success /\ last_http_status = <<500>>

\* The records upstream can report.
UpstreamRecords == UNION {Range(o.ws) : o \in outcomes}

\* C12: grace extension never compounds. A cache entry holds the record as
\* it was fetched, the one last fetched under its key, never an extended
\* copy; and every warning in the output of a cycle with a successful fetch
\* is the record last fetched under its key or that record with its end
\* rewritten to its own end + grace, however many cycles served it from the
\* cache.
C12_NoCompounding ==
    /\ \A i \in 1..Len(warning_cache) :
          /\ warning_cache[i].warning \in UpstreamRecords
          /\ warning_cache[i].key \in DOMAIN track => warning_cache[i].warning = track[warning_cache[i].key].w
    /\ Reconciled =>
          \A w \in Output : \E k \in DOMAIN track :
              \/ w = track[k].w
              \/ EndOf(track[k].w) > 0 /\ w = ExtCopy(track[k].w)

\* A warning fetched two cycles ago is served from the cache for the second
\* time, its end still the fetched end + grace.
C12_Witness ==
    /\ Reconciled /\ grace = 2
    /\ \E k \in AbsentFor(2) :
          /\ NowTs - track[k].at = 2
          /\ EndOf(track[k].w) > 0 /\ EndOf(track[k].w) < NowTs - 1
          /\ ExtCopy(track[k].w) \in Output
          /\ \E i \in 1..Len(warning_cache) : warning_cache[i] = Entry(k, track[k].w, track[k].at)

\* C13 as stated: when coordinates of one cycle return warnings with the
\* same key, the output of the cycle has at most one warning per key.
C13_AsStated ==
    Reconciled =>
        \A i, j \in 1..Len(ret.warnings) :
            WarningKey(ret.warnings[i]) = WarningKey(ret.warnings[j]) => i = j

\* What the code does instead: the cache holds one entry per key, and the
\* output has one element for every fetched record that has not expired.
C13_OnePerFetched ==
    /\ \A i, j \in 1..Len(warning_cache) : warning_cache[i].key = warning_cache[j].key => i = j
    /\ (Reconciled /\ grace >= 0 /\ \A i \in 1..Len(combined_warnings) : NowTs <= EndOf(combined_warnings[i]))
          => SubSeq(ret.warnings, 1, Len(combined_warnings)) = combined_warnings

C13_Duplicate ==
    /\ Reconciled /\ Len(coords) = 2
    /\ attempts[1].o.kind = "ok" /\ attempts[2].o.kind = "ok"
    /\ attempts[1].o.ws = attempts[2].o.ws /\ attempts[1].o.ws # <<>>
    /\ Len(ret.warnings) = 2 /\ ret.warnings[1] = ret.warnings[2]
    /\ Len(warning_cache) = 1

\* C14: the cache and the two snapshots change only in the step that ends
\* the fetch phase of a cycle with a successful fetch; a cycle without one,
\* a cycle that fails on zone.home and a cycle cancelled while a request
\* awaits leave all of them as they were before the cycle.
C14_StoreFrame ==
    [][/\ storeVars' # storeVars => (FetchPhaseEnds /\ any_success /\ ret'.kind = "data")
       /\ (pc' = "cancelled" \/ (pc' = "done" /\ ~any_success')) => storeVars' = storeVars]_vars

\* A cycle cancelled at its second request, after the first returned a
\* warning, with the cache and snapshots of the cycle before.
C14_Witness ==
    /\ pc = "cancelled" /\ Len(attempts) = 1 /\ attempts[1].o.kind = "ok"
    /\ combined_warnings # <<>> /\ any_success
    /\ warning_cache # <<>> /\ last_successful_data # <<>> /\ last_non_empty_data # <<>>
    /\ \A i \in 1..Len(warning_cache) :
          /\ warning_cache[i].last_seen_ts < NowTs
          /\ warning_cache[i].key \notin CurrentKeys(combined_warnings)

\* The cache entries whose key no coordinate reported in the cycle that
\* just ended, in cache order, and what serving one of them yields.
NotSeenEntries == SelectSeq(warning_cache, LAMBDA e : e.key \notin CurrentKeys(combined_warnings))

Served(e) == IF NowTs <= EndOf(e.warning) THEN e.warning ELSE ExtCopy(e.warning)

\* C15: after a cycle with a successful fetch every cache entry either has
\* a key reported in this cycle and last_seen_ts = now, or has grace > 0, a
\* last_seen_ts that is set, now - last_seen_ts <= grace, a valid end and
\* now <= end + grace; the entries of the second kind are, in order, the
\* cached warnings at the tail of the output, everything before them comes
\* from this cycle's fetches, and an entry of neither kind is gone.
C15_CacheAfterCycle ==
    Reconciled =>
        LET n == Len(NotSeenEntries)
            m == Len(ret.warnings)
        IN  /\ \A i \in 1..Len(warning_cache) :
                  LET e == warning_cache[i]
                  IN  \/ e.key \in CurrentKeys(combined_warnings) /\ e.last_seen_ts = NowTs
                      \/ /\ e.key \notin CurrentKeys(combined_warnings)
                         /\ grace > 0 /\ e.last_seen_ts > 0
                         /\ NowTs - e.last_seen_ts <= grace
                         /\ EndOf(e.warning) > 0 /\ NowTs <= EndOf(e.warning) + grace
            /\ n <= m
            /\ \A j \in 1..n : ret.warnings[m - n + j] = Served(NotSeenEntries[j])
            /\ \A j \in 1..(m - n) : \E i \in 1..Len(combined_warnings) :
                  ret.warnings[j] \in {combined_warnings[i], ExtCopy(combined_warnings[i])}
            /\ \A k \in DOMAIN track :
                  (track[k].age > 0 /\ (grace <= 0 \/ NowTs - track[k].at > grace
                                         \/ EndOf(track[k].w) <= 0 \/ NowTs > EndOf(track[k].w) + grace))
                      => k \notin CacheKeys(warning_cache)

\* One entry reported now and one served from the cache with its end
\* extended, last in the output.
C15_Witness ==
    /\ Reconciled /\ Len(warning_cache) = 2 /\ Len(NotSeenEntries) = 1
    /\ Len(ret.warnings) = 2
    /\ ret.warnings[2] = ExtCopy(NotSeenEntries[1].warning)
    /\ ret.warnings[2] # NotSeenEntries[1].warning

\* The string form of a field of the composite key: empty when the field is
\* missing.
FieldText(v) == IF v = Absent THEN "" ELSE PyStrOf(v)

\* The key as the description gives it.
DescribedKey(w) ==
    IF Truthy(w.id) THEN "id:" \o PyStrOf(w.id)
    ELSE IF Truthy(w.awcode) THEN "awcode:" \o PyStrOf(w.awcode)
    ELSE IF Truthy(w.warnid) THEN "warnid:" \o PyStrOf(w.warnid)
    ELSE IF Truthy(w.wcode) THEN "wcode:" \o PyStrOf(w.wcode)
    ELSE FieldText(w.wtype) \o "|" \o FieldText(w.wlevel) \o "|" \o FieldText(w.start) \o "|" \o FieldText(w.end)

\* C16: _warning_key returns "<field>:<value>" for the first of id, awcode,
\* warnid, wcode that is present and truthy, and otherwise the string forms
\* of wtype, wlevel, start and end joined by "|", a missing field as the
\* empty string; the key of the extended copy follows the same rule.
C16_KeyAsDescribed ==
    ppc = "keyed" =>
        /\ pkeys[1] = DescribedKey(pw)
        /\ Len(pkeys) = 2 => pkeys[2] = DescribedKey(pres[1])

\* id is present but falsy (0), awcode and wcode are both truthy: the key
\* is awcode's.
C16_Witness ==
    /\ ppc = "keyed" /\ pw.id = PyInt(0) /\ Truthy(pw.awcode) /\ Truthy(pw.wcode)
    /\ pkeys[1] = "awcode:x"

\* No identity field is truthy, start is missing and end is null: the
\* composite key.
C16_WitnessComposite ==
    /\ ppc = "keyed" /\ ~PwHasIdentity /\ pw.start = Absent /\ pw.end = PyNone
    /\ pkeys[1] = "1|2||None"

\* C17: the last-non-empty snapshot, when set, holds a non-empty list and
\* is set only if the last-successful snapshot is set; it changes only at
\* the end of a cycle with a successful fetch, to that cycle's result and
\* time; and after every cycle with a successful fetch the last-successful
\* snapshot is the result the cycle returned.
C17_Snapshots ==
    /\ [](last_non_empty_data # <<>> =>
            (last_non_empty_data[1] # <<>> /\ last_non_empty_utc # <<>> /\ last_successful_data # <<>>))
    /\ [](Reconciled => (ret.kind = "data" /\ last_successful_data = <<ret.warnings>>))
    /\ [][last_non_empty_data' # last_non_empty_data =>
            /\ FetchPhaseEnds /\ any_success
            /\ last_non_empty_data' = <<ret'.warnings>>
            /\ last_non_empty_data' = last_successful_data'
            /\ last_non_empty_utc' = last_request_utc]_vars

\* A cycle with a successful fetch returned the empty list: the
\* last-successful snapshot is empty, the last-non-empty one is older.
C17_Witness ==
    /\ Reconciled /\ ret.warnings = <<>>
    /\ last_successful_data = <<(<<>>)>>
    /\ last_non_empty_data # <<>> /\ last_non_empty_data[1] # <<>>
    /\ last_non_empty_utc[1] < NowTs

\* C18: in the result of a cycle with a successful fetch, every warning
\* whose end is valid has end >= now.
C18_NoPastEnd ==
    Reconciled => \A w \in Output : EndOf(w) > 0 => EndOf(w) >= NowTs

\* A warning fetched in this cycle after its end and one served from the
\* cache after its end are both in the result, their ends moved to or past
\* now.
C18_Witness ==
    /\ Reconciled /\ Len(ret.warnings) = 2
    /\ \E k \in AbsentFor(0) : EndOf(track[k].w) > 0 /\ EndOf(track[k].w) < NowTs /\ ret.warnings[1] = ExtCopy(track[k].w)
    /\ \E k \in AbsentFor(1) : EndOf(track[k].w) > 0 /\ EndOf(track[k].w) < NowTs /\ ret.warnings[2] = ExtCopy(track[k].w)
    /\ \A w \in Output : EndOf(w) >= NowTs

\* C19: a warning whose end is invalid (missing, not a number, or <= 0) is
\* in the output unchanged, and in the cache, in every cycle where upstream
\* reports it; after a cycle with a successful fetch where upstream does
\* not report it, it is neither in the output nor in the cache, whatever
\* the grace window.
C19_InvalidEnd ==
    Reconciled =>
        /\ \A i \in 1..Len(combined_warnings) :
              LET w == combined_warnings[i]
              IN  EndOf(w) <= 0 =>
                    /\ w \in Output
                    /\ \E j \in 1..Len(warning_cache) : warning_cache[j] = Entry(WarningKey(w), w, NowTs)
        /\ \A w \in Output : EndOf(w) <= 0 => w \in Range(combined_warnings)
        /\ \A j \in 1..Len(warning_cache) :
              EndOf(warning_cache[j].warning) <= 0 => warning_cache[j].key \in CurrentKeys(combined_warnings)

\* A warning with an unparseable end was fetched one second ago, within
\* the grace window, and is not reported now: it is gone.
C19_Witness ==
    /\ Reconciled /\ grace = 2
    /\ \E k \in AbsentFor(1) :
          /\ track[k].w = WBadEnd /\ NowTs - track[k].at = 1
          /\ k \notin CacheKeys(warning_cache)
          /\ track[k].w \notin Output

====
